---- MODULE Spec2Model ----
(***************************************************************************)
(* EventManagment: the schema and row-level-security policies of the       *)
(* initial migration (profiles, events, bookings) and the App component    *)
(* that lists events page by page, filters them by a search term, shows    *)
(* the carousel and submits bookings.                                      *)
(*                                                                         *)
(* uuid values are modelled as positive integers, SQL NULL / JS null as 0, *)
(* a NULL text as NoText. Dates are day numbers of the year 2024, prices   *)
(* are in cents. React is modelled as a production build of version 18:    *)
(* the effects of a click have run before the next event is handled, and   *)
(* effects run once.                                                       *)
(***************************************************************************)
EXTENDS Integers, Sequences, FiniteSets, TLC

VARIABLES
  issued,        \* number of uuids handed out by auth.users so far
  authUsers,     \* auth.users: the ids of the existing identities
  profiles,      \* table profiles: rows [id, is_admin]
  events,        \* table events: rows [id, date, price, capacity, created_by]
  bookings,      \* table bookings: rows [id, event_id, user_id, status, preferences]
  bookingSeq,    \* number of booking uuids generated so far
  response,      \* what the backend answered to the last statement
  \* App (useState / useAuth)
  user,            \* useAuth().user: the signed-in identity, NULL when signed out
  uiEvents,        \* events: the loaded page, a sequence of transformed rows
  isModalOpen,
  isAuthModalOpen,
  selectedEventId,
  currentPage,
  totalCount,
  isLoading,
  fetches,         \* fetchEvents calls in flight: [page, phase]
  toast,           \* the notification shown last by react-hot-toast
  errorsShown,     \* toast.error calls made while handling the last backend answer
  tzWest,          \* the browser's time zone is behind UTC
  mounted,         \* the page is open: App is mounted and its effects have run
  searchTerm,      \* the text of the search box
  currentIndex,    \* EventCarousel: the slide shown
  \* BookingModal (useState)
  formData,        \* formData.preferences
  isSubmitting,
  isSuccess,
  closeTimer,      \* the setTimeout of handleSubmit is pending
  submit           \* the bookings insert of handleBookingSubmit in flight, or NoSubmit

dbVars == <<issued, authUsers, profiles, events, bookings, bookingSeq>>
pageVars == <<uiEvents, currentPage, totalCount, isLoading, fetches>>
bookVars == <<user, isModalOpen, isAuthModalOpen, selectedEventId,
              formData, isSubmitting, isSuccess, closeTimer, submit>>
viewVars == <<searchTerm, currentIndex>>
uiVars == <<pageVars, bookVars, toast, errorsShown, tzWest, mounted, viewVars>>
vars == <<dbVars, response, uiVars>>

NULL == 0
\* SQL NULL in a text column (events.description is nullable)
NoText == "<null>"

\* ---- bounds of the model ------------------------------------------------
MaxUsers == 2
MaxNewEvents == 1
MaxBookings == 2
MaxAdmins == 1        \* identities in the specifications of the App
MaxPageEvents == 10  \* rows of events in the specification of the list
MaxIndex == 6        \* the timer of the carousel stops counting here

\* the values of the statements and of the user's input that are enumerated
NewDates == {300}
EventValues == {[price |-> 0, capacity |-> 1], [price |-> -100, capacity |-> -1]}
UpdateTargets == {7}
AdminValues == {"true", "false", "null"}
StatusValues == {"pending", "confirmed", "cancelled"}
PreferenceTexts == {"", "vegan"}
BookingEventIds == {1, 99}
PageDates == {300, 301}
BookCapacities == {0, 1}
BookCards == {8}
GalaText == [title |-> "Winter Gala", description |-> "A night of music."]
NewTexts == {GalaText, [title |-> "Winter Gala", description |-> NoText]}
SearchTerms == {"", "NIGHT", "yoga", "gala"}

\* ---- the migration's sample data ----------------------------------------
SeedEvents ==
  { [id |-> 1, title |-> "Tech Conference 2024",
     description |-> "Join us for the biggest tech conference of the year featuring industry leaders and innovative workshops.",
     date |-> 106, price |-> 29999, capacity |-> 500, created_by |-> NULL],
    [id |-> 2, title |-> "Music Festival",
     description |-> "Experience an unforgettable weekend of live music performances from top artists across multiple genres.",
     date |-> 141, price |-> 14999, capacity |-> 1000, created_by |-> NULL],
    [id |-> 3, title |-> "Food & Wine Festival",
     description |-> "Savor exquisite cuisines and premium wines from around the world in this gastronomic celebration.",
     date |-> 162, price |-> 8999, capacity |-> 300, created_by |-> NULL],
    [id |-> 4, title |-> "Art Exhibition",
     description |-> "Discover contemporary masterpieces from emerging artists around the globe.",
     date |-> 183, price |-> 2500, capacity |-> 200, created_by |-> NULL],
    [id |-> 5, title |-> "Startup Pitch Night",
     description |-> "Watch innovative startups pitch their ideas to top investors.",
     date |-> 197, price |-> 5000, capacity |-> 150, created_by |-> NULL],
    [id |-> 6, title |-> "Wellness Retreat",
     description |-> "A day of mindfulness, yoga, and healthy living workshops.",
     date |-> 214, price |-> 19999, capacity |-> 100, created_by |-> NULL],
    [id |-> 7, title |-> "Comedy Night",
     description |-> "Laugh out loud with top stand-up comedians.",
     date |-> 228, price |-> 4500, capacity |-> 250, created_by |-> NULL] }

\* ---- text columns ----------------------------------------------------------
\* the UTF-16 code units of the texts that occur
Chars(s) ==
  CASE s = "Tech Conference 2024" ->
      <<"T", "e", "c", "h", " ", "C", "o", "n", "f", "e", "r", "e",
         "n", "c", "e", " ", "2", "0", "2", "4">>
    [] s = "Join us for the biggest tech conference of the year featuring industry leaders and innovative workshops." ->
      <<"J", "o", "i", "n", " ", "u", "s", " ", "f", "o", "r", " ",
         "t", "h", "e", " ", "b", "i", "g", "g", "e", "s", "t", " ",
         "t", "e", "c", "h", " ", "c", "o", "n", "f", "e", "r", "e",
         "n", "c", "e", " ", "o", "f", " ", "t", "h", "e", " ", "y",
         "e", "a", "r", " ", "f", "e", "a", "t", "u", "r", "i", "n",
         "g", " ", "i", "n", "d", "u", "s", "t", "r", "y", " ", "l",
         "e", "a", "d", "e", "r", "s", " ", "a", "n", "d", " ", "i",
         "n", "n", "o", "v", "a", "t", "i", "v", "e", " ", "w", "o",
         "r", "k", "s", "h", "o", "p", "s", ".">>
    [] s = "Music Festival" ->
      <<"M", "u", "s", "i", "c", " ", "F", "e", "s", "t", "i", "v",
         "a", "l">>
    [] s = "Experience an unforgettable weekend of live music performances from top artists across multiple genres." ->
      <<"E", "x", "p", "e", "r", "i", "e", "n", "c", "e", " ", "a",
         "n", " ", "u", "n", "f", "o", "r", "g", "e", "t", "t", "a",
         "b", "l", "e", " ", "w", "e", "e", "k", "e", "n", "d", " ",
         "o", "f", " ", "l", "i", "v", "e", " ", "m", "u", "s", "i",
         "c", " ", "p", "e", "r", "f", "o", "r", "m", "a", "n", "c",
         "e", "s", " ", "f", "r", "o", "m", " ", "t", "o", "p", " ",
         "a", "r", "t", "i", "s", "t", "s", " ", "a", "c", "r", "o",
         "s", "s", " ", "m", "u", "l", "t", "i", "p", "l", "e", " ",
         "g", "e", "n", "r", "e", "s", ".">>
    [] s = "Food & Wine Festival" ->
      <<"F", "o", "o", "d", " ", "&", " ", "W", "i", "n", "e", " ",
         "F", "e", "s", "t", "i", "v", "a", "l">>
    [] s = "Savor exquisite cuisines and premium wines from around the world in this gastronomic celebration." ->
      <<"S", "a", "v", "o", "r", " ", "e", "x", "q", "u", "i", "s",
         "i", "t", "e", " ", "c", "u", "i", "s", "i", "n", "e", "s",
         " ", "a", "n", "d", " ", "p", "r", "e", "m", "i", "u", "m",
         " ", "w", "i", "n", "e", "s", " ", "f", "r", "o", "m", " ",
         "a", "r", "o", "u", "n", "d", " ", "t", "h", "e", " ", "w",
         "o", "r", "l", "d", " ", "i", "n", " ", "t", "h", "i", "s",
         " ", "g", "a", "s", "t", "r", "o", "n", "o", "m", "i", "c",
         " ", "c", "e", "l", "e", "b", "r", "a", "t", "i", "o", "n",
         ".">>
    [] s = "Art Exhibition" ->
      <<"A", "r", "t", " ", "E", "x", "h", "i", "b", "i", "t", "i",
         "o", "n">>
    [] s = "Discover contemporary masterpieces from emerging artists around the globe." ->
      <<"D", "i", "s", "c", "o", "v", "e", "r", " ", "c", "o", "n",
         "t", "e", "m", "p", "o", "r", "a", "r", "y", " ", "m", "a",
         "s", "t", "e", "r", "p", "i", "e", "c", "e", "s", " ", "f",
         "r", "o", "m", " ", "e", "m", "e", "r", "g", "i", "n", "g",
         " ", "a", "r", "t", "i", "s", "t", "s", " ", "a", "r", "o",
         "u", "n", "d", " ", "t", "h", "e", " ", "g", "l", "o", "b",
         "e", ".">>
    [] s = "Startup Pitch Night" ->
      <<"S", "t", "a", "r", "t", "u", "p", " ", "P", "i", "t", "c",
         "h", " ", "N", "i", "g", "h", "t">>
    [] s = "Watch innovative startups pitch their ideas to top investors." ->
      <<"W", "a", "t", "c", "h", " ", "i", "n", "n", "o", "v", "a",
         "t", "i", "v", "e", " ", "s", "t", "a", "r", "t", "u", "p",
         "s", " ", "p", "i", "t", "c", "h", " ", "t", "h", "e", "i",
         "r", " ", "i", "d", "e", "a", "s", " ", "t", "o", " ", "t",
         "o", "p", " ", "i", "n", "v", "e", "s", "t", "o", "r", "s",
         ".">>
    [] s = "Wellness Retreat" ->
      <<"W", "e", "l", "l", "n", "e", "s", "s", " ", "R", "e", "t",
         "r", "e", "a", "t">>
    [] s = "A day of mindfulness, yoga, and healthy living workshops." ->
      <<"A", " ", "d", "a", "y", " ", "o", "f", " ", "m", "i", "n",
         "d", "f", "u", "l", "n", "e", "s", "s", ",", " ", "y", "o",
         "g", "a", ",", " ", "a", "n", "d", " ", "h", "e", "a", "l",
         "t", "h", "y", " ", "l", "i", "v", "i", "n", "g", " ", "w",
         "o", "r", "k", "s", "h", "o", "p", "s", ".">>
    [] s = "Comedy Night" ->
      <<"C", "o", "m", "e", "d", "y", " ", "N", "i", "g", "h", "t">>
    [] s = "Laugh out loud with top stand-up comedians." ->
      <<"L", "a", "u", "g", "h", " ", "o", "u", "t", " ", "l", "o",
         "u", "d", " ", "w", "i", "t", "h", " ", "t", "o", "p", " ",
         "s", "t", "a", "n", "d", "-", "u", "p", " ", "c", "o", "m",
         "e", "d", "i", "a", "n", "s", ".">>
    [] s = "Winter Gala" ->
      <<"W", "i", "n", "t", "e", "r", " ", "G", "a", "l", "a">>
    [] s = "A night of music." ->
      <<"A", " ", "n", "i", "g", "h", "t", " ", "o", "f", " ", "m",
         "u", "s", "i", "c", ".">>
    [] s = "" ->
      <<>>
    [] s = "NIGHT" ->
      <<"N", "I", "G", "H", "T">>
    [] s = "yoga" ->
      <<"y", "o", "g", "a">>
    [] s = "gala" ->
      <<"g", "a", "l", "a">>

Upper == <<"A", "B", "C", "D", "E", "F", "G", "H", "I", "J", "K", "L", "M",
           "N", "O", "P", "Q", "R", "S", "T", "U", "V", "W", "X", "Y", "Z">>
Lower == <<"a", "b", "c", "d", "e", "f", "g", "h", "i", "j", "k", "l", "m",
           "n", "o", "p", "q", "r", "s", "t", "u", "v", "w", "x", "y", "z">>

\* String.prototype.toLowerCase
ToLowerCase(chars) ==
  [i \in 1..Len(chars) |->
     IF \E j \in 1..Len(Upper) : Upper[j] = chars[i]
     THEN Lower[CHOOSE j \in 1..Len(Upper) : Upper[j] = chars[i]]
     ELSE chars[i]]

\* the texts that occur, and each of them in lower case
Texts ==
  UNION { {e.title, e.description} : e \in SeedEvents }
    \cup ( UNION { {t.title, t.description} : t \in NewTexts } \ {NoText} )
    \cup SearchTerms
LowerCased == [s \in Texts |-> ToLowerCase(Chars(s))]

\* String.prototype.includes
Includes(chars, part) ==
  \E from \in 0..(Len(chars) - Len(part)) :
    \A j \in 1..Len(part) : chars[from + j] = part[j]

\* ---- row-level security -------------------------------------------------
\* auth.uid() = column: an SQL comparison, not true when either side is NULL
SqlEq(a, b) == a # NULL /\ b # NULL /\ a = b

\* EXISTS (SELECT 1 FROM profiles WHERE profiles.id = auth.uid() AND profiles.is_admin = true)
AdminProfileExists(uid) ==
  \E p \in profiles : SqlEq(p.id, uid) /\ p.is_admin = "true"

ProfilesSelectOwnOnly(uid, row) == SqlEq(uid, row.id)
ProfilesSelectUsing(uid, row) == TRUE
ProfilesUpdateUsing(uid, row) == SqlEq(uid, row.id)
\* a policy FOR UPDATE without WITH CHECK applies its USING expression to the new row
ProfilesUpdateCheck(uid, row) == ProfilesUpdateUsing(uid, row)

EventsSelectUsing(uid, row) == TRUE
EventsInsertAnyAuthenticated(uid, row) == uid # NULL
EventsInsertCheck(uid, row) == AdminProfileExists(uid)
EventsUpdateUsing(uid, row) == AdminProfileExists(uid)
EventsUpdateCheck(uid, row) == EventsUpdateUsing(uid, row)

BookingsSelectUsing(uid, row) == SqlEq(uid, row.user_id)
BookingsInsertCheck(uid, row) == SqlEq(uid, row.user_id)
BookingsUpdateUsing(uid, row) == SqlEq(uid, row.user_id)
BookingsUpdateUnchecked(uid, row) == TRUE
BookingsUpdateCheck(uid, row) == BookingsUpdateUsing(uid, row)

\* SELECT * FROM <table> as seen by the caller
SelectProfiles(uid) == {p \in profiles : ProfilesSelectUsing(uid, p)}
SelectEvents(uid) == {e \in events : EventsSelectUsing(uid, e)}
SelectBookings(uid) == {b \in bookings : BookingsSelectUsing(uid, b)}

\* the callers: the anonymous role and every identity that was ever issued a token
Actors == 0..issued

Reply(op, uid, status) == [op |-> op, uid |-> uid, status |-> status]

\* ---- auth.users and the profile trigger ---------------------------------
\* INSERT INTO public.profiles (id, full_name, avatar_url) VALUES (new.id, ...)
HandleNewUserNoRow(newId) == profiles
HandleNewUser(newId) == profiles \cup {[id |-> newId, is_admin |-> "false"]}

\* a row is inserted into auth.users; on_auth_user_created fires for it
CreateIdentity ==
  /\ issued < MaxUsers
  /\ LET newId == issued + 1
         dup == \E p \in profiles : p.id = newId
     IN /\ issued' = newId
        /\ authUsers' = IF dup THEN authUsers ELSE authUsers \cup {newId}
        /\ profiles' = IF dup THEN profiles ELSE HandleNewUser(newId)
        /\ response' = Reply("signup", newId, IF dup THEN "constraint" ELSE "ok")
  /\ UNCHANGED <<events, bookings, bookingSeq, uiVars>>

\* a row of auth.users is deleted: profiles.id ... ON DELETE CASCADE,
\* bookings.user_id ... ON DELETE CASCADE, events.created_by without an action
DeleteIdentity(id) ==
  /\ id \in authUsers
  /\ LET blocked == \E e \in events : e.created_by = id
     IN /\ authUsers' = IF blocked THEN authUsers ELSE authUsers \ {id}
        /\ profiles' = IF blocked THEN profiles ELSE {p \in profiles : p.id # id}
        /\ bookings' = IF blocked THEN bookings ELSE {b \in bookings : b.user_id # id}
        /\ response' = Reply("delete_user", id, IF blocked THEN "constraint" ELSE "ok")
  /\ UNCHANGED <<issued, events, bookingSeq, uiVars>>

\* UPDATE profiles SET id = newId, is_admin = newAdmin WHERE id = target
UpdateProfile(uid, target, newId, newAdmin) ==
  LET old == {p \in profiles : p.id = target /\ ProfilesUpdateUsing(uid, p)}
      new == [id |-> newId, is_admin |-> newAdmin]
      st == IF old = {} THEN "norows"
            ELSE IF ~ProfilesUpdateCheck(uid, new) THEN "denied"
            ELSE IF newId # target /\ (newId \notin authUsers
                                       \/ \E p \in profiles : p.id = newId
                                       \/ \E b \in bookings : b.user_id = target
                                       \/ \E e \in events : e.created_by = target)
                 THEN "constraint"
            ELSE "ok"
  IN /\ profiles' = IF st = "ok" THEN (profiles \ old) \cup {new} ELSE profiles
     /\ response' = Reply("update_profiles", uid, st)
     /\ UNCHANGED <<issued, authUsers, events, bookings, bookingSeq, uiVars>>

\* ---- events -------------------------------------------------------------
\* INSERT INTO events (title, description, date, price, capacity, created_by) VALUES (...)
InsertEvent(uid, text, date, price, capacity, created_by) ==
  /\ LET new == [id |-> Cardinality(events) + 1, title |-> text.title,
                 description |-> text.description, date |-> date, price |-> price,
                 capacity |-> capacity, created_by |-> created_by]
         st == IF ~EventsInsertCheck(uid, new) THEN "denied"
               ELSE IF created_by # NULL /\ ~\E p \in profiles : p.id = created_by
                    THEN "constraint"
               ELSE "ok"
     IN /\ events' = IF st = "ok" THEN events \cup {new} ELSE events
        /\ response' = Reply("insert_events", uid, st)
  /\ UNCHANGED <<issued, authUsers, profiles, bookings, bookingSeq, uiVars>>

\* UPDATE events SET price = price, capacity = capacity WHERE id = id
UpdateEvent(uid, id, price, capacity) ==
  /\ LET old == {e \in events : e.id = id /\ EventsUpdateUsing(uid, e)}
         patch(e) == [e EXCEPT !.price = price, !.capacity = capacity]
         st == IF old = {} THEN "norows"
               ELSE IF \E e \in old : ~EventsUpdateCheck(uid, patch(e)) THEN "denied"
               ELSE "ok"
     IN /\ events' = IF st = "ok" THEN (events \ old) \cup {patch(e) : e \in old} ELSE events
        /\ response' = Reply("update_events", uid, st)
  /\ UNCHANGED <<issued, authUsers, profiles, bookings, bookingSeq, uiVars>>

\* ---- bookings -----------------------------------------------------------
\* INSERT INTO bookings (event_id, user_id, status, preferences) VALUES (...)
NewBooking(event_id, user_id, status, preferences) ==
  [id |-> bookingSeq + 1, event_id |-> event_id, user_id |-> user_id,
   status |-> status, preferences |-> preferences]

InsertBookingUniquePerUser(uid, new) ==
  IF ~BookingsInsertCheck(uid, new) THEN "denied"
  ELSE IF \E b \in bookings : b.event_id = new.event_id /\ b.user_id = new.user_id
       THEN "constraint"
  ELSE "ok"
InsertBookingStatus(uid, new) ==
  IF ~BookingsInsertCheck(uid, new) THEN "denied"
  ELSE IF (new.event_id # NULL /\ ~\E e \in events : e.id = new.event_id)
          \/ (new.user_id # NULL /\ ~\E p \in profiles : p.id = new.user_id)
       THEN "constraint"
  ELSE "ok"

ApplyInsertBooking(uid, new) ==
  LET st == InsertBookingStatus(uid, new)
  IN /\ bookings' = IF st = "ok" THEN bookings \cup {new} ELSE bookings
     /\ bookingSeq' = IF st = "ok" THEN bookingSeq + 1 ELSE bookingSeq
     /\ response' = Reply("insert_bookings", uid, st)

InsertBooking(uid, event_id, user_id, status, preferences) ==
  /\ ApplyInsertBooking(uid, NewBooking(event_id, user_id, status, preferences))
  /\ UNCHANGED <<issued, authUsers, profiles, events, uiVars>>

\* UPDATE bookings SET user_id = user_id, status = status WHERE id = id
UpdateBooking(uid, id, user_id, status) ==
  LET old == {b \in bookings : b.id = id /\ BookingsUpdateUsing(uid, b)}
      patch(b) == [b EXCEPT !.user_id = user_id, !.status = status]
      st == IF old = {} THEN "norows"
            ELSE IF \E b \in old : ~BookingsUpdateCheck(uid, patch(b)) THEN "denied"
            ELSE IF user_id # NULL /\ ~\E p \in profiles : p.id = user_id THEN "constraint"
            ELSE "ok"
  IN /\ bookings' = IF st = "ok" THEN (bookings \ old) \cup {patch(b) : b \in old} ELSE bookings
     /\ response' = Reply("update_bookings", uid, st)
     /\ UNCHANGED <<issued, authUsers, profiles, events, bookingSeq, uiVars>>

\* ---- App: the event list and its pagination -----------------------------
ITEMS_PER_PAGE == 9

Min(a, b) == IF a < b THEN a ELSE b
Max(a, b) == IF a > b THEN a ELSE b

\* const totalPages = Math.ceil(totalCount / ITEMS_PER_PAGE)
TotalPagesRoundedDown == totalCount \div ITEMS_PER_PAGE
totalPages == (totalCount + ITEMS_PER_PAGE - 1) \div ITEMS_PER_PAGE

\* Array.from({ length: totalPages }, (_, i) => i + 1): one button per page
PageButtons == [i \in 1..totalPages |-> i]

\* .order('date', { ascending: true }): every order of the rows by date; rows
\* of equal date come in whichever order the database produces for the query
RECURSIVE DateOrders(_)
DateOrders(rows) ==
  IF rows = {} THEN {<<>>}
  ELSE LET first == CHOOSE d \in {e.date : e \in rows} : \A e \in rows : d <= e.date
       IN UNION { {<<e>> \o rest : rest \in DateOrders(rows \ {e})} :
                  e \in {x \in rows : x.date = first} }

\* .range(from, to): the rows at the zero-based positions from..to
RangeRows(ordered, from, to) == SubSeq(ordered, from + 1, Min(to + 1, Len(ordered)))

\* new Date(event.date).toLocaleDateString(): the date is read as midnight UTC
\* and shown in the browser's zone, the previous day west of Greenwich
LocaleDateString(date) == IF tzWest THEN date - 1 ELSE date

\* the map of fetchEvents from a row to an Event
TransformEvent(e) ==
  [id |-> e.id, title |-> e.title, description |-> e.description,
   date |-> LocaleDateString(e.date), price |-> e.price,
   capacity |-> e.capacity, registeredCount |-> 0]

RemoveAt(seq, i) == SubSeq(seq, 1, i - 1) \o SubSeq(seq, i + 1, Len(seq))

\* fetchEvents up to its first await: setIsLoading(true), the count query leaves
StartFetchWithoutSpinner(page) ==
  /\ isLoading' = isLoading
  /\ fetches' = Append(fetches, [page |-> page, phase |-> "count"])
StartFetch(page) ==
  /\ isLoading' = TRUE
  /\ fetches' = Append(fetches, [page |-> page, phase |-> "count"])

\* setCurrentPage(page), and the effect on [currentPage] when the page changed
SetCurrentPage(page) ==
  /\ currentPage' = page
  /\ IF page # currentPage THEN StartFetch(page) ELSE UNCHANGED <<isLoading, fetches>>
  /\ UNCHANGED <<dbVars, response, uiEvents, totalCount, bookVars, toast, errorsShown, tzWest, mounted, viewVars>>

\* the page is opened: useEffect(() => { fetchEvents(); }, [currentPage]) runs
Mount ==
  /\ ~mounted
  /\ mounted' = TRUE
  /\ StartFetch(currentPage)
  /\ UNCHANGED <<dbVars, response, uiEvents, currentPage, totalCount, bookVars, toast, errorsShown, tzWest, viewVars>>

\* the search box and the grid of cards
\* event.title.toLowerCase().includes(searchTerm.toLowerCase())
TitleMatches(ev) == Includes(LowerCased[ev.title], LowerCased[searchTerm])

\* the callback of events.filter throws on an event: || evaluates
\* event.description.toLowerCase() when the title does not match, and that is a
\* TypeError when the description is null
FilterThrows(ev) == ev.description = NoText /\ ~TitleMatches(ev)

\* the value of the callback where it does not throw
FilterCallback(ev) ==
  \/ TitleMatches(ev)
  \/ Includes(LowerCased[ev.description], LowerCased[searchTerm])

\* rendering App throws: without an error boundary React unmounts the tree
RenderThrows == \E k \in 1..Len(uiEvents) : FilterThrows(uiEvents[k])

\* const filteredEvents = events.filter(...)
filteredEvents == SelectSeq(uiEvents, FilterCallback)

\* the EventCards of the grid: {isLoading ? spinner : filteredEvents.map(...)}
GridCards == IF isLoading \/ RenderThrows THEN <<>> ELSE filteredEvents

\* the pagination controls are rendered next to the grid
GridShown == ~isLoading /\ ~RenderThrows

\* onChange of the search box: setSearchTerm(e.target.value)
ChangeSearchTerm(term) ==
  /\ mounted /\ ~RenderThrows
  /\ searchTerm' = term
  /\ UNCHANGED <<dbVars, response, pageVars, bookVars, toast, errorsShown, tzWest, mounted,
                 currentIndex>>

\* the pagination controls are rendered only while isLoading is false
ClickPrev ==
  /\ GridShown
  /\ currentPage # 1
  /\ SetCurrentPage(Max(1, currentPage - 1))

ClickNext ==
  /\ GridShown
  /\ currentPage # totalPages
  /\ SetCurrentPage(Min(totalPages, currentPage + 1))

\* a page button that is there while the spinner is shown
ClickPageWhileLoading(page) ==
  /\ ~RenderThrows
  /\ page \in 1..Len(PageButtons)
  /\ SetCurrentPage(PageButtons[page])
ClickPage(page) ==
  /\ GridShown
  /\ page \in 1..Len(PageButtons)
  /\ SetCurrentPage(PageButtons[page])

\* the count query of call i answers: setTotalCount(count || 0), the page query
\* leaves; the error of the answer is not read. An answer that arrives after
\* App was unmounted changes nothing.
FetchCount(i, ok) ==
  /\ ~RenderThrows
  /\ i \in 1..Len(fetches)
  /\ fetches[i].phase = "count"
  /\ totalCount' = IF ok THEN Cardinality(SelectEvents(user)) ELSE 0
  /\ fetches' = [fetches EXCEPT ![i].phase = "data"]
  /\ response' = Reply("count_events", user, IF ok THEN "ok" ELSE "network")
  /\ errorsShown' = 0
  /\ UNCHANGED <<dbVars, uiEvents, currentPage, isLoading, bookVars, toast, tzWest, mounted, viewVars>>

\* the page query of call i answers: setEvents(transformedEvents) or the toast,
\* and setIsLoading(false) either way
FetchData(i, ok, ordered) ==
  /\ ~RenderThrows
  /\ i \in 1..Len(fetches)
  /\ fetches[i].phase = "data"
  /\ LET from == (fetches[i].page - 1) * ITEMS_PER_PAGE
         to == fetches[i].page * ITEMS_PER_PAGE - 1
         data == RangeRows(ordered, from, to)
         st == IF ~ok THEN "network" ELSE IF from < 0 THEN "range" ELSE "ok"
     IN /\ uiEvents' = IF st = "ok" THEN [k \in 1..Len(data) |-> TransformEvent(data[k])]
                       ELSE uiEvents
        /\ toast' = IF st = "ok" THEN toast ELSE "Failed to load events"
        /\ errorsShown' = IF st = "ok" THEN 0 ELSE 1
        /\ response' = Reply("select_events", user, st)
  /\ isLoading' = FALSE
  /\ fetches' = RemoveAt(fetches, i)
  /\ UNCHANGED <<dbVars, currentPage, totalCount, bookVars, tzWest, mounted, viewVars>>

\* ---- EventCarousel --------------------------------------------------------
\* events.length of the carousel: latestEvents is [...events].sort(...).slice(0, 5)
latestEventsLength == Min(5, Len(uiEvents))

\* current === events.length - 1 ? 0 : current + 1
NextIndex(current) == IF current = latestEventsLength - 1 THEN 0 ELSE current + 1

\* current === 0 ? events.length - 1 : current - 1
PrevIndex(current) == IF current = 0 THEN latestEventsLength - 1 ELSE current - 1

SetCurrentIndex(index) ==
  /\ currentIndex' = index
  /\ UNCHANGED <<dbVars, response, pageVars, bookVars, toast, errorsShown, tzWest, mounted,
                 searchTerm>>

\* the setInterval callback: the effect runs before the early return of an
\* empty list, so the timer ticks whether or not a slide is rendered
Tick ==
  /\ mounted /\ ~RenderThrows
  /\ SetCurrentIndex(NextIndex(currentIndex))

\* the buttons and the indicators are rendered when events.length > 0
nextSlide ==
  /\ mounted /\ ~RenderThrows /\ latestEventsLength > 0
  /\ SetCurrentIndex(NextIndex(currentIndex))

prevSlide ==
  /\ mounted /\ ~RenderThrows /\ latestEventsLength > 0
  /\ SetCurrentIndex(PrevIndex(currentIndex))

ClickIndicator(index) ==
  /\ mounted /\ ~RenderThrows
  /\ index \in 0..(latestEventsLength - 1)
  /\ SetCurrentIndex(index)

\* ---- App and BookingModal: booking an event -------------------------------
\* EventCard: disabled={event.registeredCount >= event.capacity}
BookDisabled(ev) == ev.registeredCount >= ev.capacity

\* handleBookEvent(event.id), from the Book button of the k-th card shown
HandleBookEventWithoutUserTest(k) ==
  /\ LET cards == GridCards
     IN /\ k \in 1..Len(cards)
        /\ ~BookDisabled(cards[k])
        /\ selectedEventId' = cards[k].id
        /\ isModalOpen' = TRUE
        /\ UNCHANGED isAuthModalOpen
  /\ UNCHANGED <<dbVars, response, pageVars, user, formData, isSubmitting, isSuccess,
                 closeTimer, submit, toast, errorsShown, tzWest, mounted, viewVars>>
HandleBookEvent(k) ==
  /\ LET cards == GridCards
     IN /\ k \in 1..Len(cards)
        /\ ~BookDisabled(cards[k])
        /\ IF user = NULL
           THEN /\ isAuthModalOpen' = TRUE
                /\ UNCHANGED <<selectedEventId, isModalOpen>>
           ELSE /\ selectedEventId' = cards[k].id
                /\ isModalOpen' = TRUE
                /\ UNCHANGED isAuthModalOpen
  /\ UNCHANGED <<dbVars, response, pageVars, user, formData, isSubmitting, isSuccess,
                 closeTimer, submit, toast, errorsShown, tzWest, mounted, viewVars>>

\* Navbar: the Sign In button, shown while nobody is signed in
OpenAuth ==
  /\ user = NULL
  /\ isAuthModalOpen' = TRUE
  /\ UNCHANGED <<dbVars, response, pageVars, user, isModalOpen, selectedEventId, formData,
                 isSubmitting, isSuccess, closeTimer, submit, toast, errorsShown, tzWest, mounted, viewVars>>

\* AuthModal.handleSubmit with isSignIn: signIn, the toast, onClose()
SignIn(id, ok) ==
  /\ isAuthModalOpen
  /\ id \in authUsers
  /\ user' = IF ok THEN id ELSE user
  /\ isAuthModalOpen' = IF ok THEN FALSE ELSE isAuthModalOpen
  /\ toast' = IF ok THEN "Successfully signed in!" ELSE "An error occurred"
  /\ errorsShown' = IF ok THEN 0 ELSE 1
  /\ response' = Reply("signin", id, IF ok THEN "ok" ELSE "credentials")
  /\ UNCHANGED <<dbVars, pageVars, isModalOpen, selectedEventId, formData,
                 isSubmitting, isSuccess, closeTimer, submit, tzWest, mounted, viewVars>>

\* Navbar: Sign Out
SignOut ==
  /\ user # NULL
  /\ user' = NULL
  /\ UNCHANGED <<dbVars, response, pageVars, isModalOpen, isAuthModalOpen, selectedEventId,
                 formData, isSubmitting, isSuccess, closeTimer, submit, toast, errorsShown, tzWest, mounted, viewVars>>

\* BookingModal: the preferences textarea of the form
ChangePreferences(text) ==
  /\ isModalOpen /\ ~isSuccess
  /\ formData' = text
  /\ UNCHANGED <<dbVars, response, pageVars, user, isModalOpen, isAuthModalOpen,
                 selectedEventId, isSubmitting, isSuccess, closeTimer, submit, toast, errorsShown, tzWest, mounted, viewVars>>

\* BookingModal: the X button of the form
CloseBookingModal ==
  /\ isModalOpen /\ ~isSuccess
  /\ isModalOpen' = FALSE
  /\ UNCHANGED <<dbVars, response, pageVars, user, isAuthModalOpen, selectedEventId,
                 formData, isSubmitting, isSuccess, closeTimer, submit, toast, errorsShown, tzWest, mounted, viewVars>>

\* no insert of handleBookingSubmit is in flight
NoSubmit == [event_id |-> NULL, user_id |-> NULL, status |-> "", preferences |-> ""]

\* the object handleBookingSubmit inserts
BookingRequestConfirmed(eventId, userId, preferences) ==
  [event_id |-> eventId, user_id |-> userId, status |-> "confirmed", preferences |-> preferences]
BookingRequest(eventId, userId, preferences) ==
  [event_id |-> eventId, user_id |-> userId, status |-> "pending", preferences |-> preferences]

\* BookingModal.handleSubmit up to the await inside handleBookingSubmit: without
\* a user or a selected event handleBookingSubmit returns at once and
\* handleSubmit goes on to its success branch
SubmitBooking ==
  /\ isModalOpen /\ ~isSuccess /\ ~isSubmitting
  /\ IF user = NULL \/ selectedEventId = NULL
     THEN /\ isSuccess' = TRUE
          /\ closeTimer' = TRUE
          /\ UNCHANGED <<isSubmitting, submit>>
     ELSE /\ isSubmitting' = TRUE
          /\ submit' = BookingRequest(selectedEventId, user, formData)
          /\ UNCHANGED <<isSuccess, closeTimer>>
  /\ UNCHANGED <<dbVars, response, pageVars, user, isModalOpen, isAuthModalOpen,
                 selectedEventId, formData, toast, errorsShown, tzWest, mounted, viewVars>>

\* handleBookingSubmit: if (error) throw error, and the catch returns
\* Promise.reject(error); otherwise Promise.resolve()
OnSubmitNeverRejects(st) == FALSE
OnSubmitRejects(st) == st # "ok"

\* the insert is answered: the rest of handleBookingSubmit and of handleSubmit
BookingAnswer(delivered) ==
  /\ submit # NoSubmit
  /\ LET new == NewBooking(submit.event_id, submit.user_id, submit.status, submit.preferences)
         st == IF delivered THEN InsertBookingStatus(submit.user_id, new) ELSE "network"
     IN /\ IF delivered
           THEN ApplyInsertBooking(submit.user_id, new)
           ELSE /\ response' = Reply("insert_bookings", submit.user_id, "network")
                /\ UNCHANGED <<bookings, bookingSeq>>
        /\ isSuccess' = IF OnSubmitRejects(st) THEN isSuccess ELSE TRUE
        /\ closeTimer' = IF OnSubmitRejects(st) THEN closeTimer ELSE TRUE
        /\ toast' = IF st = "ok" THEN toast ELSE "Failed to submit booking"
        /\ errorsShown' = IF st = "ok" THEN 0 ELSE 1
  /\ isSubmitting' = FALSE
  /\ submit' = NoSubmit
  /\ UNCHANGED <<issued, authUsers, profiles, events, pageVars, user,
                 isModalOpen, isAuthModalOpen, selectedEventId, formData, tzWest, mounted, viewVars>>

\* the setTimeout callback of handleSubmit, 2000 ms after the success
CloseTimerFires ==
  /\ closeTimer
  /\ isSuccess' = FALSE
  /\ isModalOpen' = FALSE
  /\ formData' = ""
  /\ closeTimer' = FALSE
  /\ UNCHANGED <<dbVars, response, pageVars, user, isAuthModalOpen, selectedEventId,
                 isSubmitting, submit, toast, errorsShown, tzWest, mounted, viewVars>>

\* ---- the database after the migration, the App just mounted --------------
InitDb ==
  /\ issued = 0
  /\ authUsers = {}
  /\ profiles = {}
  /\ events = SeedEvents
  /\ bookings = {}
  /\ bookingSeq = 0
  /\ response = Reply("migrate", NULL, "ok")

\* the page is not open yet; the useState initial values
InitApp ==
  /\ mounted = FALSE
  /\ user = NULL
  /\ uiEvents = <<>>
  /\ isModalOpen = FALSE
  /\ isAuthModalOpen = FALSE
  /\ selectedEventId = NULL
  /\ currentPage = 1
  /\ totalCount = 0
  /\ isLoading = TRUE
  /\ fetches = <<>>
  /\ toast = ""
  /\ errorsShown = 0
  /\ searchTerm = ""
  /\ currentIndex = 0
  /\ formData = ""
  /\ isSubmitting = FALSE
  /\ isSuccess = FALSE
  /\ closeTimer = FALSE
  /\ submit = NoSubmit

Init == InitDb /\ InitApp /\ tzWest = FALSE

\* clients writing profiles and events under the policies
NextEvents ==
  \/ CreateIdentity
  \/ \E id \in authUsers : DeleteIdentity(id)
  \/ \E uid \in Actors, target \in authUsers, newId \in 1..MaxUsers, a \in AdminValues :
       UpdateProfile(uid, target, newId, a)
  \/ \E uid \in Actors, d \in NewDates, v \in EventValues :
       /\ Cardinality(events) < Cardinality(SeedEvents) + MaxNewEvents
       /\ InsertEvent(uid, GalaText, d, v.price, v.capacity, uid)
  \/ \E uid \in Actors, id \in UpdateTargets, v \in EventValues :
       UpdateEvent(uid, id, v.price, v.capacity)

SpecEvents == Init /\ [][NextEvents]_vars

\* clients writing bookings under the policies
NextBookings ==
  \/ CreateIdentity
  \/ \E id \in authUsers : DeleteIdentity(id)
  \/ \E uid \in Actors, e \in BookingEventIds, u \in 0..MaxUsers, s \in StatusValues :
       /\ bookingSeq < MaxBookings
       /\ InsertBooking(uid, e, u, s, "")
  \/ \E uid \in Actors, b \in bookings, u \in 0..MaxUsers, s \in StatusValues :
       UpdateBooking(uid, b.id, u, s)

SpecBookings == Init /\ [][NextBookings]_vars

\* the list and its pagination while administrators add events
InitPage == InitDb /\ InitApp /\ tzWest \in BOOLEAN

NextPage ==
  \/ /\ issued < MaxAdmins
     /\ CreateIdentity
  \/ \E uid \in authUsers : UpdateProfile(uid, uid, uid, "true")
  \/ \E uid \in authUsers, d \in PageDates :
       /\ Cardinality(events) < MaxPageEvents
       /\ InsertEvent(uid, GalaText, d, 0, 1, NULL)
  \/ Mount
  \/ ClickPrev
  \/ ClickNext
  \/ \E page \in 1..Len(PageButtons) : ClickPage(page)
  \/ \E i \in 1..Len(fetches), ok \in BOOLEAN : FetchCount(i, ok)
  \/ \E i \in 1..Len(fetches), ok \in BOOLEAN, ordered \in DateOrders(SelectEvents(user)) :
       FetchData(i, ok, ordered)

SpecPage == InitPage /\ [][NextPage]_vars

\* signed-in users booking events of the first page; the administrators have
\* prepared the events before the page is opened
NextBook ==
  \/ /\ ~mounted /\ issued < MaxAdmins
     /\ CreateIdentity
  \/ \E uid \in authUsers :
       /\ ~mounted
       /\ UpdateProfile(uid, uid, uid, "true")
  \/ \E uid \in authUsers, c \in BookCapacities :
       /\ ~mounted /\ Cardinality(events) < Cardinality(SeedEvents) + MaxNewEvents
       /\ InsertEvent(uid, GalaText, 300, 0, c, NULL)
  \/ Mount
  \/ \E i \in 1..Len(fetches) : FetchCount(i, TRUE)
  \/ \E i \in 1..Len(fetches), ordered \in DateOrders(SelectEvents(user)) :
       FetchData(i, TRUE, ordered)
  \/ OpenAuth
  \/ \E id \in authUsers : SignIn(id, TRUE)
  \/ SignOut
  \/ \E k \in BookCards : HandleBookEvent(k)
  \/ \E text \in PreferenceTexts : ChangePreferences(text)
  \/ CloseBookingModal
  \/ SubmitBooking
  \/ \E delivered \in BOOLEAN :
       /\ delivered => bookingSeq < MaxBookings
       /\ BookingAnswer(delivered)
  \/ CloseTimerFires

SpecBook == Init /\ [][NextBook]_vars

\* searching the list; the administrators have prepared the events, some
\* of them without a description, before the page is opened
NextSearch ==
  \/ /\ ~mounted /\ issued < MaxAdmins
     /\ CreateIdentity
  \/ \E uid \in authUsers :
       /\ ~mounted
       /\ UpdateProfile(uid, uid, uid, "true")
  \/ \E uid \in authUsers, text \in NewTexts :
       /\ ~mounted /\ Cardinality(events) < MaxPageEvents
       /\ InsertEvent(uid, text, 300, 0, 1, NULL)
  \/ Mount
  \/ \E i \in 1..Len(fetches) : FetchCount(i, TRUE)
  \/ \E i \in 1..Len(fetches), ordered \in DateOrders(SelectEvents(user)) :
       FetchData(i, TRUE, ordered)
  \/ ClickPrev
  \/ ClickNext
  \/ \E page \in 1..Len(PageButtons) : ClickPage(page)
  \/ \E term \in SearchTerms : ChangeSearchTerm(term)

SpecSearch == Init /\ [][NextSearch]_vars

\* the carousel above the list; the administrators have prepared the events
\* before the page is opened
NextCarousel ==
  \/ /\ ~mounted /\ issued < MaxAdmins
     /\ CreateIdentity
  \/ \E uid \in authUsers :
       /\ ~mounted
       /\ UpdateProfile(uid, uid, uid, "true")
  \/ \E uid \in authUsers :
       /\ ~mounted /\ Cardinality(events) < MaxPageEvents
       /\ InsertEvent(uid, GalaText, 300, 0, 1, NULL)
  \/ Mount
  \/ \E i \in 1..Len(fetches) : FetchCount(i, TRUE)
  \/ \E i \in 1..Len(fetches), ordered \in DateOrders(SelectEvents(user)) :
       FetchData(i, TRUE, ordered)
  \/ ClickPrev
  \/ ClickNext
  \/ \E page \in 1..Len(PageButtons) : ClickPage(page)
  \/ /\ currentIndex < MaxIndex
     /\ Tick
  \/ /\ currentIndex < MaxIndex
     /\ nextSlide
  \/ prevSlide
  \/ \E index \in 0..4 : ClickIndicator(index)

SpecCarousel == Init /\ [][NextCarousel]_vars

\* ---- claims about the policies ------------------------------------------

\* C1: when the caller has no profile row with is_admin = true (the anonymous
\* role and an identity without a profile row included), an INSERT into events
\* or an UPDATE of an events row is not applied and events stays as it was.
C1_NonAdminEventWriteRejected ==
  [][ ( /\ response'.op \in {"insert_events", "update_events"}
        /\ ~\E p \in profiles : p.id = response'.uid /\ p.is_admin = "true" )
      => (response'.status # "ok" /\ events' = events) ]_vars

C1_Witness ==
  /\ response.op = "insert_events"
  /\ response.status = "denied"
  /\ \E p \in profiles : p.id = response.uid /\ p.is_admin = "false"

\* C2: a caller reads, inserts and updates only bookings whose user_id is the
\* caller: an insert adds only rows of the caller, an update touches only rows
\* of the caller and leaves them rows of the caller, a select shows only rows of
\* the caller.
C2_OwnBookingsOnly ==
  /\ [](\A uid \in Actors : \A b \in SelectBookings(uid) : b.user_id = uid)
  /\ [][ (response'.op \in {"insert_bookings", "update_bookings"})
         => /\ \A b \in bookings' \ bookings : b.user_id = response'.uid
            /\ \A b \in bookings \ bookings' : b.user_id = response'.uid ]_vars

C2_Witness ==
  /\ response.op = "update_bookings"
  /\ response.status = "denied"
  /\ \E b \in bookings : b.user_id = response.uid
  /\ \E b \in bookings : b.user_id # response.uid

\* C3: every caller, the anonymous role included, reads every row of events
\* and every row of profiles.
C3_PublicRead ==
  \A uid \in Actors : SelectEvents(uid) = events /\ SelectProfiles(uid) = profiles

C3_Witness ==
  /\ Cardinality(events) > Cardinality(SeedEvents)
  /\ \E p \in profiles : p.is_admin = "true"
  /\ \E p \in profiles : p.is_admin = "false"

\* C4: every identity has exactly one profiles row, and the row the trigger
\* creates for a new identity is the only row added and has is_admin = false.
C4_OneProfilePerIdentity ==
  /\ [](\A u \in authUsers : Cardinality({p \in profiles : p.id = u}) = 1)
  /\ [][ (response'.op = "signup" /\ response'.status = "ok")
         => profiles' \ profiles = {[id |-> response'.uid, is_admin |-> "false"]} ]_vars

C4_Witness ==
  /\ Cardinality(authUsers) = MaxUsers
  /\ response.op = "signup"
  /\ \E p \in profiles : p.is_admin = "true"

\* C6: a booking is created pending, moves only from pending to confirmed or
\* to cancelled, and never leaves confirmed or cancelled.
C6_StatusTransitions ==
  [][ \A b \in bookings' :
        IF \E o \in bookings : o.id = b.id
        THEN \A o \in bookings :
               (o.id = b.id /\ o.status # b.status)
               => (o.status = "pending" /\ b.status \in {"confirmed", "cancelled"})
        ELSE b.status = "pending" ]_vars

\* C7: every events row has capacity >= 0 and price >= 0.
C7_NonNegativeCapacityAndPrice ==
  \A e \in events : e.capacity >= 0 /\ e.price >= 0

\* ---- claims about booking ---------------------------------------------------

\* C5: a submission made with a selected event and a signed-in user sends that
\* event, that user's id and the form's preferences text, and when the database
\* answers it exactly one bookings row has been added: status pending, the
\* event, the user and the text of the submission.
C5_SubmitInsertsPendingRow ==
  [][ /\ (submit = NoSubmit /\ submit' # NoSubmit)
         => /\ user # NULL /\ selectedEventId # NULL
            /\ submit'.event_id = selectedEventId
            /\ submit'.user_id = user
            /\ submit'.preferences = formData
      /\ (submit # NoSubmit /\ submit' = NoSubmit /\ response'.status # "network")
         => \E b \in bookings' :
              /\ b \notin bookings
              /\ bookings' = bookings \cup {b}
              /\ b.status = "pending"
              /\ b.event_id = submit.event_id
              /\ b.user_id = submit.user_id
              /\ b.preferences = submit.preferences ]_vars

C5_Witness ==
  /\ response = Reply("insert_bookings", user, "ok")
  /\ isSuccess
  /\ \E b \in bookings :
       /\ b.id = bookingSeq
       /\ b.user_id = user
       /\ b.event_id = selectedEventId
       /\ b.status = "pending"
       /\ b.preferences = "vegan"

\* C8: every submission the database answers is accepted and adds one row to
\* the rows of its (event, user) pair, however many rows the pair and the event
\* already have and whatever the event's capacity is.
C8_NoCapacityOrDuplicateCheck ==
  [][ (submit # NoSubmit /\ submit' = NoSubmit /\ response'.status # "network")
      => /\ response'.status = "ok"
         /\ Cardinality({b \in bookings' : b.event_id = submit.event_id
                                           /\ b.user_id = submit.user_id})
            = Cardinality({b \in bookings : b.event_id = submit.event_id
                                            /\ b.user_id = submit.user_id}) + 1 ]_vars

C8_Witness ==
  \E e \in events, u \in authUsers :
    /\ e.capacity >= 1
    /\ Cardinality({b \in bookings : b.event_id = e.id}) > e.capacity
    /\ Cardinality({b \in bookings : b.event_id = e.id /\ b.user_id = u}) >= 2

\* ---- claims about the event list -----------------------------------------

\* C9: the pagination control offers ceil(totalCount / 9) pages, totalCount
\* being the row count the count query returned; 7 events give exactly 1 page.
C9_PageCountIsCeiling ==
  /\ Len(PageButtons) * ITEMS_PER_PAGE >= totalCount
  /\ (Len(PageButtons) - 1) * ITEMS_PER_PAGE < totalCount
  /\ \A i \in 1..Len(PageButtons) : PageButtons[i] = i
  /\ (totalCount = 7 => Len(PageButtons) = 1)
  /\ (response.op = "count_events" /\ response.status = "ok"
        => totalCount = Cardinality(events))

C9_Witness ==
  /\ ~isLoading
  /\ events = SeedEvents
  /\ totalCount = 7
  /\ Len(uiEvents) = 7
  /\ PageButtons = <<1>>

\* C10: a completed fetch of page p has loaded at most 9 events, exactly those
\* at the positions (p-1)*9 .. p*9-1 of the table ordered by date ascending, so
\* that the pages of an unchanged table hold every event exactly once.
C10_PageIsRangeOfDateOrder ==
  (response.op = "select_events" /\ response.status = "ok" /\ ~isLoading)
  => /\ Len(uiEvents) <= ITEMS_PER_PAGE
     /\ \A ordered \in DateOrders(events) :
          {uiEvents[k].id : k \in 1..Len(uiEvents)}
            = {ordered[k].id : k \in ((currentPage - 1) * ITEMS_PER_PAGE + 1)
                                      .. Min(currentPage * ITEMS_PER_PAGE, Len(ordered))}

\* C11: while the grid is rendered it shows exactly the events of the loaded
\* page whose title or description contains the search term, letters compared
\* without regard to case; no other event is shown, and with an empty search
\* term every event of the loaded page is shown.
C11_SearchShowsMatchesOfLoadedPage ==
  LET SameLetter(a, b) ==
        a = b \/ \E j \in 1..Len(Upper) : {a, b} = {Upper[j], Lower[j]}
      Contains(text, term) ==
        /\ text # NoText
        /\ LET cs == Chars(text)
               ts == Chars(term)
           IN \E from \in 0..(Len(cs) - Len(ts)) :
                \A j \in 1..Len(ts) : SameLetter(cs[from + j], ts[j])
      matching == {k \in 1..Len(uiEvents) :
                     \/ Contains(uiEvents[k].title, searchTerm)
                     \/ Contains(uiEvents[k].description, searchTerm)}
  IN ~isLoading
     => /\ {GridCards[k].id : k \in 1..Len(GridCards)} = {uiEvents[k].id : k \in matching}
        /\ (searchTerm = "" => GridCards = uiEvents)

C14_FailureShowsOneNotification ==
  /\ []( ( /\ response.op \in {"count_events", "select_events", "insert_bookings", "signin"}
           /\ response.status # "ok" )
         => errorsShown = 1 )
  /\ [][ Len(fetches') > Len(fetches)
         => (mounted' # mounted \/ currentPage' # currentPage) ]_vars

\* C17: currentPage is a page number: at least 1 and at most max(1, totalPages),
\* and no fetch asks for a range that starts below 0.
C17_CurrentPageValid ==
  /\ currentPage >= 1
  /\ currentPage <= Max(1, totalPages)
  /\ \A i \in 1..Len(fetches) : (fetches[i].page - 1) * ITEMS_PER_PAGE >= 0

C15_NoSelfPromotion ==
  [][ \A uid \in Actors :
        ( /\ ~AdminProfileExists(uid)
          /\ \E p \in profiles' : SqlEq(p.id, uid) /\ p.is_admin = "true" )
        => response'.uid # uid ]_vars

\* C13: when the insert of a submission fails, the step that handles the
\* failure leaves the modal's open flag, the form's text and the selection as
\* they were, isSuccess stays false, no close timer is pending, and
\* isSubmitting is false again, which enables the submit button.
C13_FailureKeepsFormAndReenables ==
  [][ (submit # NoSubmit /\ submit' = NoSubmit /\ response'.status # "ok")
      => /\ isModalOpen' = isModalOpen
         /\ ~isSuccess /\ ~isSuccess'
         /\ formData' = formData
         /\ selectedEventId' = selectedEventId
         /\ ~closeTimer /\ ~closeTimer'
         /\ isSubmitting /\ ~isSubmitting' ]_vars

C13_Witness ==
  /\ response = Reply("insert_bookings", user, "network")
  /\ toast = "Failed to submit booking"
  /\ isModalOpen /\ ~isSuccess /\ ~isSubmitting /\ ~closeTimer
  /\ formData = "vegan"
  /\ submit = NoSubmit

\* C16: isSuccess becomes true only in the step in which the insert of the
\* submission is answered without error and its row has been added.
C16_SuccessOnlyAfterInsert ==
  [][ (~isSuccess /\ isSuccess')
      => /\ submit # NoSubmit
         /\ response' = Reply("insert_bookings", submit.user_id, "ok")
         /\ \E b \in bookings' \ bookings :
              b.event_id = submit.event_id /\ b.user_id = submit.user_id ]_vars

\* C20: a click on Book without a signed-in user opens the auth modal and
\* leaves selectedEventId and the booking modal alone; with a signed-in user it
\* selects the card's event, opens the booking modal and leaves the auth modal
\* alone. The booking modal opens, and the selection changes, only in a step
\* taken while a user is signed in.
C20_BookClickOpensOneModal ==
  [][ <<isModalOpen, isAuthModalOpen, selectedEventId>>'
        # <<isModalOpen, isAuthModalOpen, selectedEventId>>
      => /\ \A k \in BookCards :
              HandleBookEvent(k)
              => IF user = NULL
                 THEN /\ isAuthModalOpen'
                      /\ selectedEventId' = selectedEventId
                      /\ isModalOpen' = isModalOpen
                 ELSE /\ selectedEventId' = GridCards[k].id
                      /\ isModalOpen'
                      /\ isAuthModalOpen' = isAuthModalOpen
         /\ (~isModalOpen /\ isModalOpen') => (user # NULL /\ user' = user)
         /\ (selectedEventId' # selectedEventId) => (user # NULL /\ isModalOpen') ]_vars

C20_Witness ==
  /\ user = NULL
  /\ isAuthModalOpen
  /\ ~isModalOpen
  /\ selectedEventId \in {e.id : e \in events}
  /\ bookings = {}

\* C18: whenever the carousel has an event, currentIndex is the index of one
\* of its events; the timer and nextSlide go from the last slide to slide 0 and
\* prevSlide goes from slide 0 to the last slide.
C18_IndexDesignatesSlide ==
  /\ [](latestEventsLength > 0 => (0 <= currentIndex /\ currentIndex < latestEventsLength))
  /\ [][ /\ ((Tick \/ nextSlide) /\ latestEventsLength > 0
                                  /\ currentIndex = latestEventsLength - 1)
            => currentIndex' = 0
         /\ (prevSlide /\ currentIndex = 0) => currentIndex' = latestEventsLength - 1 ]_vars

====
